---- MODULE Spec2Model ----
(***************************************************************************)
(* A model of the natural-language-to-SQL assistant of src/app.py and of   *)
(* the scripts it runs, src/schema.py and src/fetch_all_databases.py.      *)
(*                                                                         *)
(* Texts (the generation service's output, the SQL statement) are strings  *)
(* and the sanitization pipeline of generate_sql works on their            *)
(* characters, as the regular expressions and string methods of the code   *)
(* do.                                                                     *)
(***************************************************************************)
EXTENDS Integers, Sequences, FiniteSets, TLC

(***************************************************************************)
(* Characters and strings                                                  *)
(***************************************************************************)

\* The i-th character of s, as a string of length one.
At(s, i) == SubSeq(s, i, i)

\* The suffix of s that starts at position i.
From(s, i) == SubSeq(s, i, Len(s))

\* str.lower() on the ASCII letters.
ToLower ==
  [c \in {"A","B","C","D","E","F","G","H","I","J","K","L","M",
          "N","O","P","Q","R","S","T","U","V","W","X","Y","Z"} |->
     CASE c = "A" -> "a" [] c = "B" -> "b" [] c = "C" -> "c" [] c = "D" -> "d"
       [] c = "E" -> "e" [] c = "F" -> "f" [] c = "G" -> "g" [] c = "H" -> "h"
       [] c = "I" -> "i" [] c = "J" -> "j" [] c = "K" -> "k" [] c = "L" -> "l"
       [] c = "M" -> "m" [] c = "N" -> "n" [] c = "O" -> "o" [] c = "P" -> "p"
       [] c = "Q" -> "q" [] c = "R" -> "r" [] c = "S" -> "s" [] c = "T" -> "t"
       [] c = "U" -> "u" [] c = "V" -> "v" [] c = "W" -> "w" [] c = "X" -> "x"
       [] c = "Y" -> "y" [] c = "Z" -> "z"]

LowerChar(c) == IF c \in DOMAIN ToLower THEN ToLower[c] ELSE c

RECURSIVE Lower(_)
Lower(s) == IF s = "" THEN "" ELSE LowerChar(At(s, 1)) \o Lower(From(s, 2))

\* The regular expression class \s and the characters str.strip() removes,
\* among the characters a string of this module can hold (the vertical tab,
\* the separators \x1c-\x1f and the spaces beyond ASCII are whitespace of
\* the code too).
IsSpace(c) == c \in {" ", "\n", "\t", "\r", "\f"}

\* The characters at which str.splitlines() ends a line, among the
\* characters a string of this module can hold.
IsLineBreak(c) == c \in {"\n", "\r", "\f"}

Letters ==
  DOMAIN ToLower \cup
  {"a","b","c","d","e","f","g","h","i","j","k","l","m",
   "n","o","p","q","r","s","t","u","v","w","x","y","z"}

Digits == {"0","1","2","3","4","5","6","7","8","9"}

\* The regular expression class [a-zA-Z_].
IsIdentStart(c) == c \in Letters \cup {"_"}

\* The regular expression class \w.
IsWordChar(c) == c \in Letters \cup Digits \cup {"_"}

\* s has p at position i (str.startswith at an offset).
HasAt(s, i, p) == i + Len(p) - 1 <= Len(s) /\ SubSeq(s, i, i + Len(p) - 1) = p

\* s has p at position i in some letter case (re.IGNORECASE; p is lowercase).
HasAtNoCase(s, i, p) ==
  /\ i + Len(p) - 1 <= Len(s)
  /\ LowerChar(At(s, i)) = At(p, 1)
  /\ Lower(SubSeq(s, i, i + Len(p) - 1)) = p

\* The first position >= i of s that holds no whitespace (Len(s)+1 if none).
RECURSIVE SkipSpace(_, _)
SkipSpace(s, i) ==
  IF i <= Len(s) /\ IsSpace(At(s, i)) THEN SkipSpace(s, i + 1) ELSE i

\* The last position <= i of s that holds no whitespace (0 if none).
RECURSIVE SkipSpaceBack(_, _)
SkipSpaceBack(s, i) ==
  IF i >= 1 /\ IsSpace(At(s, i)) THEN SkipSpaceBack(s, i - 1) ELSE i

\* str.strip()
Strip(s) == SubSeq(s, SkipSpace(s, 1), SkipSpaceBack(s, Len(s)))

\* p in s, looking from position i on.
RECURSIVE ContainsFrom(_, _, _)
ContainsFrom(s, i, p) ==
  IF i + Len(p) - 1 > Len(s) THEN FALSE
  ELSE IF HasAt(s, i, p) THEN TRUE
  ELSE ContainsFrom(s, i + 1, p)

Contains(s, p) == ContainsFrom(s, 1, p)

(***************************************************************************)
(* The sanitization pipeline of generate_sql                               *)
(***************************************************************************)

\* The backquote, which a TLA+ string holds only when a quote follows it.
Backquote == SubSeq("`'", 1, 1)

\* The code fence marker: three backquotes.
Fence == Backquote \o Backquote \o Backquote

\* The first re.sub of generate_sql (pattern: fence, sql, \s*; IGNORECASE), from
\* position i on: every fence followed by sql in any letter case goes, with
\* the whitespace after it.
RECURSIVE strip_fence_open_from(_, _)
strip_fence_open_from(s, i) ==
  IF i > Len(s) THEN ""
  ELSE IF HasAtNoCase(s, i, Fence \o "sql")
       THEN strip_fence_open_from(s, SkipSpace(s, i + 6))
       ELSE At(s, i) \o strip_fence_open_from(s, i + 1)

strip_fence_open(s) == strip_fence_open_from(s, 1)

\* The second re.sub of generate_sql (pattern: \s*, fence, $): $ matches at the
\* end of the text and before a newline that ends the text; the fence found
\* there goes, with the whitespace before it.
strip_fence_close(s) ==
  LET n == Len(s)
      q == IF n >= 3 /\ SubSeq(s, n - 2, n) = Fence THEN n - 2
           ELSE IF n >= 4 /\ At(s, n) = "\n" /\ SubSeq(s, n - 3, n - 1) = Fence
                THEN n - 3
                ELSE 0
  IN IF q = 0 THEN s
     ELSE SubSeq(s, 1, SkipSpaceBack(s, q - 1)) \o From(s, q + 3)

\* The keywords of the startswith() test.
LeadingKeywords == {"select", "show", "with", "describe", "explain", "use"}

\* The position of the line break that ends the line starting at j (Len(s)+1
\* if the line is the last one): the lines of str.splitlines().
RECURSIVE LineEnd(_, _)
LineEnd(s, j) ==
  IF j > Len(s) \/ IsLineBreak(At(s, j)) THEN j ELSE LineEnd(s, j + 1)

\* The start of the line after the line break at position e: a carriage
\* return and the newline after it are one line break.
NextLine(s, e) ==
  IF At(s, e) = "\r" /\ e < Len(s) /\ At(s, e + 1) = "\n" THEN e + 2 ELSE e + 1

\* "\n".join(lines) for the lines of s from position j on.
RECURSIVE JoinLines(_, _)
JoinLines(s, j) ==
  LET e == LineEnd(s, j)
  IN IF e > Len(s) THEN From(s, j)
     ELSE IF NextLine(s, e) > Len(s) THEN SubSeq(s, j, e - 1)
     ELSE SubSeq(s, j, e - 1) \o "\n" \o JoinLines(s, NextLine(s, e))

\* line.strip().lower().startswith((...)) for the line of s that starts at j.
LineStartsWithKeyword(s, j) ==
  LET k == SkipSpace(s, j)
  IN /\ k < LineEnd(s, j)
     /\ \E kw \in LeadingKeywords : HasAtNoCase(s, k, kw)

\* The start of the first line, at or after the line starting at j, that
\* begins with a leading keyword; 0 if there is none.
RECURSIVE FirstKeywordLine(_, _)
FirstKeywordLine(s, j) ==
  IF j > Len(s) THEN 0
  ELSE IF LineStartsWithKeyword(s, j) THEN j
  ELSE IF LineEnd(s, j) > Len(s) THEN 0
  ELSE FirstKeywordLine(s, NextLine(s, LineEnd(s, j)))

\* The loop without its assignment: no line is discarded.
statement_boundary_keeps_all(s) == s

\* lines = sql_text.strip().splitlines(); the loop that keeps lines[i:],
\* joined with "\n", for the first line starting with a keyword, and leaves
\* sql_text alone without one.
statement_boundary(s) ==
  LET t == Strip(s)
      j == FirstKeywordLine(t, 1)
  IN IF j = 0 THEN s ELSE JoinLines(t, j)

Placeholder == "'your_database_name'"

\* sql_text.replace("'your_database_name'", f"'{db_name}'"), from position i on.
RECURSIVE substitute_placeholder_from(_, _, _)
substitute_placeholder_from(s, i, db_name) ==
  IF i > Len(s) THEN ""
  ELSE IF HasAt(s, i, Placeholder)
       THEN "'" \o db_name \o "'"
            \o substitute_placeholder_from(s, i + Len(Placeholder), db_name)
       ELSE At(s, i) \o substitute_placeholder_from(s, i + 1, db_name)

substitute_placeholder(s, db_name) == substitute_placeholder_from(s, 1, db_name)

\* The first position >= i of s that holds no \w character.
RECURSIVE SkipWord(_, _)
SkipWord(s, i) ==
  IF i <= Len(s) /\ IsWordChar(At(s, i)) THEN SkipWord(s, i + 1) ELSE i

\* repl(match): group(1) is the keyword, group(2) the identifier.
repl(whole, keyword, table, db_name) ==
  IF Contains(table, ".") THEN whole
  ELSE keyword \o " " \o db_name \o "." \o table

\* re.sub(r"\b(FROM|JOIN)\s+([a-zA-Z_][\w]*)", repl, sql_text, re.IGNORECASE),
\* from position i on.
RECURSIVE qualify_from(_, _, _)
qualify_from(s, i, db_name) ==
  IF i > Len(s) THEN ""
  ELSE LET b == SkipSpace(s, i + 4)
           matches ==
             /\ i = 1 \/ ~IsWordChar(At(s, i - 1))
             /\ HasAtNoCase(s, i, "from") \/ HasAtNoCase(s, i, "join")
             /\ b > i + 4
             /\ b <= Len(s)
             /\ IsIdentStart(At(s, b))
           c == SkipWord(s, b + 1)
       IN IF matches
          THEN repl(SubSeq(s, i, c - 1), SubSeq(s, i, i + 3),
                    SubSeq(s, b, c - 1), db_name)
               \o qualify_from(s, c, db_name)
          ELSE At(s, i) \o qualify_from(s, i + 1, db_name)

qualify_table_names(sql_text, db_name) == qualify_from(sql_text, 1, db_name)

\* The test without lower(): it misses the namespace spelled in capitals.
restricted_namespace_case_sensitive(s) == Contains(s, "information_schema")

\* "information_schema" in sql_text.lower()
restricted_namespace(s) == Contains(Lower(s), "information_schema")

\* The position of the first ";" of s at or after i (0 if none).
RECURSIVE FirstSemicolon(_, _)
FirstSemicolon(s, i) ==
  IF i > Len(s) THEN 0
  ELSE IF At(s, i) = ";" THEN i
  ELSE FirstSemicolon(s, i + 1)

\* The first position >= i of s that holds no whitespace other than a line
\* break of sqlparse ("\n", "\r").
RECURSIVE SkipBlank(_, _)
SkipBlank(s, i) ==
  IF i <= Len(s) /\ At(s, i) \in {" ", "\t", "\f"} THEN SkipBlank(s, i + 1) ELSE i

\* str(sqlparse.parse(s)[0]): sqlparse keeps the text as it is and splits it
\* after a ";", the blanks that follow it staying with the statement before
\* and a line break ending it.
\* (The texts here hold no ";" inside quotes, parentheses or comments.)
first_statement(s) ==
  LET q == FirstSemicolon(s, 1)
  IN IF q = 0 THEN s ELSE SubSeq(s, 1, SkipBlank(s, q + 1) - 1)

\* The text of generate_sql before the restricted-namespace test (lines 103-113).
sanitize(content, db_name) ==
  qualify_table_names(
    substitute_placeholder(
      statement_boundary(strip_fence_close(strip_fence_open(content))),
      db_name),
    db_name)

RestrictedError ==
  "Queries to " \o Backquote \o "information_schema" \o Backquote
  \o " are not supported in Databricks."

\* generate_sql for a 200 answer of the generation service with this content:
\* the statement it returns, or the exception it raises.
generate_sql(content, db_name) ==
  LET sql_text == sanitize(content, db_name)
  IN IF restricted_namespace(sql_text)
     THEN [ok |-> FALSE, sql |-> "", error |-> RestrictedError, sql_text |-> sql_text]
     ELSE IF Strip(sql_text) = ""
          THEN [ok |-> FALSE, sql |-> "", error |-> "tuple index out of range",
                sql_text |-> sql_text]
          ELSE [ok |-> TRUE, sql |-> first_statement(Strip(sql_text)), error |-> "",
                sql_text |-> sql_text]

(***************************************************************************)
(* The texts the pipeline is run on                                        *)
(***************************************************************************)

\* The longest text, in words of Vocabulary, that the functions are run on.
MaxTokens == 4

\* The words texts are made of: two leading keywords and FROM in a letter case
\* the code does not spell, an identifier, a blank, two line breaks, the
\* qualification dot, the statement separator and the restricted namespace in
\* mixed case.
Vocabulary ==
  {"SELECT", "Show", "from", "t", " ", "\n", "\r", ".", ";", "Information_Schema"}

RECURSIVE Concat(_)
Concat(words) == IF words = <<>> THEN "" ELSE Head(words) \o Concat(Tail(words))

\* The texts of at most n words.
Texts(n) == {Concat(w) : w \in UNION {[1..k -> Vocabulary] : k \in 0..n}}

\* How the generation service wraps its answer: not at all, in bare fences,
\* or in fences with the language tag, in capitals.
FenceStyles == {"none", "bare", "SQL"}

Wrap(text, style) ==
  IF style = "none" THEN text
  ELSE Fence \o (IF style = "bare" THEN "" ELSE style) \o "\n" \o text \o "\n" \o Fence

\* The databases of the warehouse, and a name it does not know.
WarehouseDbs == {"sales_db", "hr_db"}
UnknownDb == "nope"

(***************************************************************************)
(* The warehouse, the snapshot file and the schema cache                   *)
(***************************************************************************)

\* What the warehouse answers to SHOW TABLES, SHOW VIEWS (the names) and to
\* DESCRIBE TABLE (rows of column name and type, header rows among them).
Warehouse ==
  [d \in WarehouseDbs |->
     IF d = "sales_db"
     THEN [tables |-> <<"orders">>,
           views |-> <<"top_orders">>,
           describe |-> [e \in {"orders", "top_orders"} |->
              IF e = "orders"
              THEN << <<"amount", "decimal(10,2)">>, <<"", "">>,
                      <<"Col_Name", "data_type">>, <<"id", "int">> >>
              ELSE << <<"id", "int">> >>]]
     ELSE [tables |-> <<"employees">>,
           views |-> <<>>,
           describe |-> [e \in {"employees"} |-> << <<"name", "string">> >>]]]

\* The rows of a DESCRIBE answer that describe_entity keeps: those with a name
\* and a type that are not the col_name header.
RECURSIVE described_columns(_)
described_columns(rows) ==
  IF rows = <<>> THEN <<>>
  ELSE LET row == Head(rows)
       IN (IF row[1] # "" /\ row[2] # "" /\ Lower(row[1]) # "col_name"
           THEN << [column_name |-> row[1], type |-> row[2]] >>
           ELSE <<>>)
          \o described_columns(Tail(rows))

\* schema.py describe_entity
describe_entity(db_name, entity_name) ==
  described_columns(Warehouse[db_name].describe[entity_name])

\* schema.py main, lines 44-67: the schema object of one database.
full_schema(db_name) ==
  LET Entities(names) ==
        [i \in DOMAIN names |->
           [name |-> names[i], columns |-> describe_entity(db_name, names[i])]]
  IN [database |-> db_name,
      tables |-> Entities(Warehouse[db_name].tables),
      views |-> Entities(Warehouse[db_name].views)]

\* A file: without bytes (just opened for writing), holding a JSON list, or
\* holding bytes of two writers that json.load cannot parse.
EmptyFile == [state |-> "empty", data |-> <<>>]
GarbledFile == [state |-> "garbled", data |-> <<>>]
JsonFile(data) == [state |-> "ok", data |-> data]

\* The file after a writer that opened it (at offset 0) writes content and
\* closes: its own bytes, followed by what another writer left beyond them.
\* An empty JSON list is shorter than every schema; two different schemas
\* may be of either length.
Overlay(file, content) ==
  IF file.state = "empty" \/ file = content \/ file = JsonFile(<<>>)
  THEN {content}
  ELSE IF content = JsonFile(<<>>) THEN {GarbledFile}
  ELSE {content, GarbledFile}

\* The last index of records whose database is d.
LastRecordOf(records, d) ==
  CHOOSE i \in DOMAIN records :
    /\ records[i].database = d
    /\ \A j \in DOMAIN records : records[j].database = d => j <= i

\* One dict of load_current_schema: entity name to its columns.
EntityColumns(entities, name) ==
  LET i == CHOOSE k \in DOMAIN entities :
             /\ entities[k].name = name
             /\ \A j \in DOMAIN entities : entities[j].name = name => j <= k
      cols == entities[i].columns
      LastCol(c) == CHOOSE k \in DOMAIN cols :
                      /\ cols[k].column_name = c
                      /\ \A j \in DOMAIN cols : cols[j].column_name = c => j <= k
  IN [columns |->
        [c \in {cols[k].column_name : k \in DOMAIN cols} |-> cols[LastCol(c)].type]]

\* load_current_schema: the mapping built from the snapshot file, or the empty
\* mapping when the file cannot be read or parsed.
load_current_schema(file) ==
  IF file.state # "ok" THEN [d \in {} |-> <<>>]
  ELSE LET raw == file.data
           TableNames(r) == {r.tables[k].name : k \in DOMAIN r.tables}
           ViewNames(r) == {r.views[k].name : k \in DOMAIN r.views}
       IN [d \in {raw[i].database : i \in DOMAIN raw} |->
             LET r == raw[LastRecordOf(raw, d)]
             IN [n \in TableNames(r) \cup ViewNames(r) |->
                   IF n \in ViewNames(r) THEN EntityColumns(r.views, n)
                   ELSE EntityColumns(r.tables, n)]]

(***************************************************************************)
(* The warehouse call of /analyze                                          *)
(***************************************************************************)

\* The steps of query_databricks that can raise.
QuerySteps ==
  <<"connect", "cursor", "use", "execute", "fetchall", "description",
    "cursor_close", "connection_close">>

QueryFaults == {"none"} \cup {QuerySteps[i] : i \in DOMAIN QuerySteps}

\* What the warehouse can return for a statement: no row, a row with a
\* Decimal, or a row with a date.
ResultSets ==
  {[rows |-> <<>>, columns |-> <<"total">>],
   [rows |-> << <<[kind |-> "Decimal", value |-> "100.00"]>> >>,
    columns |-> <<"total">>],
   [rows |-> << <<[kind |-> "date", value |-> "2024-01-31"]>> >>,
    columns |-> <<"day">>]}

\* query_databricks(sql_query, db_name) when the step named by fault raises
\* (none does for "none") and the warehouse answers with result: what the
\* call returns or that it raises, the statements the warehouse got, and the
\* state the connection and the cursor are left in.
query_databricks(sql_query, db_name, fault, result) ==
  LET use == IF db_name # "" THEN <<"USE " \o Backquote \o db_name \o Backquote>>
             ELSE <<>>
      \* USE is issued for a database name only
      f == IF fault = "use" /\ db_name = "" THEN "none" ELSE fault
      \* lines 124-129, outside the try block
      connected == f # "connect"
      has_cursor == connected /\ f # "cursor"
      \* lines 131-136, the try block
      body_ok == has_cursor /\ f \notin {"use", "execute", "fetchall", "description"}
      statements ==
        IF ~has_cursor \/ f = "use" THEN <<>>
        ELSE IF f = "execute" THEN use
        ELSE use \o <<sql_query>>
      \* lines 138-139, the finally block
      cursor_closed == has_cursor /\ f # "cursor_close"
      connection_closed == cursor_closed /\ f # "connection_close"
      raised == f # "none"
  IN [raised |-> raised,
      error |-> IF raised THEN "warehouse: " \o f ELSE "",
      rows |-> IF raised THEN <<>> ELSE result.rows,
      columns |-> IF raised THEN <<>> ELSE result.columns,
      statements |-> statements,
      connection |-> IF ~connected THEN "none"
                     ELSE IF connection_closed THEN "closed" ELSE "open",
      cursor |-> IF ~has_cursor THEN "none"
                 ELSE IF cursor_closed THEN "closed" ELSE "open"]

\* generate_insight, lines 143-146: a Decimal cell becomes a float, any other
\* cell stays what it is.
formatted(rows) ==
  [i \in DOMAIN rows |->
     [j \in DOMAIN rows[i] |->
        IF rows[i][j].kind = "Decimal" THEN [rows[i][j] EXCEPT !.kind = "float"]
        ELSE rows[i][j]]]

\* generate_insight, line 155: json.dumps raises TypeError for a cell that is
\* a date.
json_dumps_raises(data) ==
  \E i \in DOMAIN data : \E j \in DOMAIN data[i] : data[i][j].kind = "date"

(***************************************************************************)
(* The state                                                               *)
(***************************************************************************)

VARIABLES
  schemas,              \* app.py schemas: the in-memory schema cache
  schema_file,          \* all_databases_schema.json of the working directory
  app_dir_schema_file,  \* all_databases_schema.json of the directory of app.py
  cwd_is_app_dir,       \* the working directory is the directory of app.py
  databases_file,       \* databases.json of the working directory
  pc,                   \* where each request thread is in its handler
  req,                  \* the request each thread handles
  local,                \* the local variables of each handler
  resp,                 \* the response each thread has built
  s_text,               \* the text the functions are run on, without fences
  s_style,              \* the fences put around it
  s_db,                 \* the database name they are run with
  s_phase,              \* which function has been run
  s_result              \* what it returned

schema_files == <<schema_file, app_dir_schema_file, cwd_is_app_dir>>
server_vars ==
  <<schemas, schema_file, app_dir_schema_file, cwd_is_app_dir, databases_file,
    pc, req, local, resp>>
text_vars == <<s_text, s_style, s_db, s_phase, s_result>>
vars ==
  <<schemas, schema_file, app_dir_schema_file, cwd_is_app_dir, databases_file,
    pc, req, local, resp, s_text, s_style, s_db, s_phase, s_result>>

\* The request threads of the threaded server.
NumRequests == 2
Procs == 1..NumRequests

\* What the generation service answers to the SQL request: a fenced statement,
\* a query of the restricted namespace, the namespace in mixed case after a
\* line of prose, and nothing.
ServerContents ==
  {Fence \o "sql\nSELECT SUM(amount) FROM orders\n" \o Fence,
   "SELECT * FROM information_schema.tables",
   "Sure:\r\nshow tables in Information_Schema",
   ""}

InsightText == "Total sales are 100."
NoDataText == "No data found for this query."

\* JSON bodies: not JSON at all, JSON that is no object, a JSON object.
Bodies == {"malformed", "not_object", "object"}
Prompts == {"", "show total sales"}
RequestDbs == WarehouseDbs \cup {UnknownDb, ""}

NoReq == [endpoint |-> "", body |-> "", prompt |-> "", database |-> ""]

NoLocal ==
  [db_schema |-> <<>>, content |-> "", sql_text |-> "", sql_query |-> "", rows |-> <<>>,
   columns |-> <<>>, llm_calls |-> 0, wh_calls |-> 0, connection |-> "none",
   cursor |-> "none", statements |-> <<>>, loaded |-> <<>>]

NoResp ==
  [status |-> 0, json |-> FALSE, error |-> "", text |-> "", sql |-> "",
   rows |-> <<>>, columns |-> <<>>, insight |-> "", databases |-> <<>>]

\* make_response(jsonify({"error": message}), status)
ErrorResp(status, message) == [NoResp EXCEPT !.status = status, !.json = TRUE, !.error = message]

\* jsonify({"status": message})
StatusResp(message) == [NoResp EXCEPT !.status = 200, !.json = TRUE, !.text = message]

\* An exception that leaves the view function: the framework answers with its
\* own error page, which is no JSON error body.
EscapedResp(status, exception) == [NoResp EXCEPT !.status = status, !.text = exception]

\* A handler ends with this response.
Finish(p, response) ==
  /\ resp' = [resp EXCEPT ![p] = response]
  /\ pc' = [pc EXCEPT ![p] = "done"]

Goto(p, label) ==
  /\ pc' = [pc EXCEPT ![p] = label]
  /\ UNCHANGED resp

\* The snapshot file the server starts with: none, or what the last run of
\* schema.py left.
InitialSchemaFiles == {EmptyFile, JsonFile(<<full_schema("sales_db")>>)}

\* A write to the relative name all_databases_schema.json (load_current_schema
\* reads it, schema.py writes it): it is the file next to app.py when the
\* server runs in that directory.
WriteCwdSchemaFile(file) ==
  /\ schema_file' = file
  /\ app_dir_schema_file' = IF cwd_is_app_dir THEN file ELSE app_dir_schema_file
  /\ UNCHANGED cwd_is_app_dir

\* A write to schema_path of load_schema, the file next to app.py.
WriteAppDirSchemaFile(file) ==
  /\ app_dir_schema_file' = file
  /\ schema_file' = IF cwd_is_app_dir THEN file ELSE schema_file
  /\ UNCHANGED cwd_is_app_dir

\* The server has started: the cache is what load_current_schema reads in the
\* working directory.
ServerInit ==
  /\ cwd_is_app_dir \in BOOLEAN
  /\ schema_file \in InitialSchemaFiles
  /\ app_dir_schema_file = schema_file
  /\ schemas = load_current_schema(schema_file)
  /\ databases_file = JsonFile(<<"sales_db">>)
  /\ pc = [p \in Procs |-> "idle"]
  /\ req = [p \in Procs |-> NoReq]
  /\ local = [p \in Procs |-> NoLocal]
  /\ resp = [p \in Procs |-> NoResp]

TextsOff ==
  /\ s_text = ""
  /\ s_style = "none"
  /\ s_db = ""
  /\ s_phase = "off"
  /\ s_result = [ok |-> FALSE, sql |-> "", error |-> "", sql_text |-> ""]

(***************************************************************************)
(* GET /                                                                   *)
(***************************************************************************)

\* get_database_list: the list in databases.json, or the empty list when the
\* file cannot be read or parsed.
get_database_list(file) == IF file.state = "ok" THEN file.data ELSE <<>>

\* Lines 177-180: the page with the database names.
index(p) ==
  /\ pc[p] = "idle"
  /\ req' = [req EXCEPT ![p] = [NoReq EXCEPT !.endpoint = "index"]]
  /\ Finish(p, [NoResp EXCEPT !.status = 200, !.text = "index.html",
                              !.databases = get_database_list(databases_file)])
  /\ UNCHANGED <<schemas, schema_files, databases_file, local>>
  /\ UNCHANGED text_vars

(***************************************************************************)
(* POST /analyze                                                           *)
(***************************************************************************)

\* Lines 250-255: the body is read inside the try block, so what get_json or
\* data.get raises is answered by the except clause of line 272.
analyze_start(p) ==
  /\ pc[p] = "idle"
  /\ \E body \in Bodies, prompt \in Prompts, database \in RequestDbs :
       /\ body # "object" => prompt = "" /\ database = ""
       /\ req' = [req EXCEPT ![p] = [endpoint |-> "analyze", body |-> body,
                                     prompt |-> prompt, database |-> database]]
       /\ IF body = "malformed"
          THEN Finish(p, ErrorResp(500, "400 Bad Request"))
          ELSE IF body = "not_object"
          THEN Finish(p, ErrorResp(500, "object has no attribute 'get'"))
          ELSE IF prompt = "" \/ database = ""
          THEN Finish(p, ErrorResp(400, "Missing prompt or database"))
          ELSE Goto(p, "analyze_check")
  /\ UNCHANGED <<schemas, schema_files, databases_file, local>>
  /\ UNCHANGED text_vars

\* The handler without the membership test of line 257.
analyze_check_absent(p) ==
  /\ pc[p] = "analyze_check"
  /\ Goto(p, "analyze_lookup")
  /\ UNCHANGED <<schemas, schema_files, databases_file, req, local>>
  /\ UNCHANGED text_vars

\* Lines 257-258: db_name not in schemas.
analyze_check(p) ==
  /\ pc[p] = "analyze_check"
  /\ IF req[p].database \notin DOMAIN schemas
     THEN Finish(p, ErrorResp(400, "Unknown database: " \o req[p].database))
     ELSE Goto(p, "analyze_lookup")
  /\ UNCHANGED <<schemas, schema_files, databases_file, req, local>>
  /\ UNCHANGED text_vars

\* Line 260: db_schema = schemas[db_name], a second read of the global.
analyze_lookup(p) ==
  /\ pc[p] = "analyze_lookup"
  /\ IF req[p].database \in DOMAIN schemas
     THEN /\ local' = [local EXCEPT ![p].db_schema = schemas[req[p].database]]
          /\ Goto(p, "analyze_generate")
     ELSE /\ Finish(p, ErrorResp(500, "'" \o req[p].database \o "'"))
          /\ UNCHANGED local
  /\ UNCHANGED <<schemas, schema_files, databases_file, req>>
  /\ UNCHANGED text_vars

\* Line 261, generate_sql: one call of the generation service, which answers
\* 200 with one of ServerContents or with another status.
analyze_generate(p) ==
  /\ pc[p] = "analyze_generate"
  /\ \/ /\ local' = [local EXCEPT ![p].llm_calls = @ + 1]
        /\ Finish(p, ErrorResp(500, "GROQ error: 500"))
     \/ \E content \in ServerContents :
          LET r == generate_sql(content, req[p].database)
          IN /\ local' = [local EXCEPT ![p].llm_calls = @ + 1,
                                       ![p].content = content,
                                       ![p].sql_text = r.sql_text,
                                       ![p].sql_query = r.sql]
             /\ IF r.ok THEN Goto(p, "analyze_query")
                ELSE Finish(p, ErrorResp(500, r.error))
  /\ UNCHANGED <<schemas, schema_files, databases_file, req>>
  /\ UNCHANGED text_vars

\* Line 262, query_databricks.
analyze_query(p) ==
  /\ pc[p] = "analyze_query"
  /\ \E fault \in QueryFaults, result \in ResultSets :
       LET q == query_databricks(local[p].sql_query, req[p].database, fault, result)
       IN /\ fault # "none" => result.rows = <<>>
          /\ local' = [local EXCEPT ![p].wh_calls = @ + 1,
                                    ![p].rows = q.rows,
                                    ![p].columns = q.columns,
                                    ![p].statements = q.statements,
                                    ![p].connection = q.connection,
                                    ![p].cursor = q.cursor]
          /\ IF q.raised THEN Finish(p, ErrorResp(500, q.error))
             ELSE Goto(p, "analyze_insight")
  /\ UNCHANGED <<schemas, schema_files, databases_file, req>>
  /\ UNCHANGED text_vars

\* The insight asked for whatever the rows are.
needs_insight_always(rows) == TRUE

\* Line 263: rows is truthy when it holds a row.
needs_insight(rows) == rows # <<>>

\* Lines 263-270: generate_insight for a result with rows, the fixed message
\* without; then the response. generate_insight serialises the rows before it
\* calls the generation service, and what it raises is answered by the except
\* clause of line 272.
analyze_insight(p) ==
  /\ pc[p] = "analyze_insight"
  /\ LET answer(insight) ==
           [NoResp EXCEPT !.status = 200, !.json = TRUE,
                          !.sql = local[p].sql_query, !.columns = local[p].columns,
                          !.rows = local[p].rows, !.insight = insight]
     IN IF needs_insight(local[p].rows)
        THEN IF json_dumps_raises(formatted(local[p].rows))
             THEN /\ UNCHANGED local
                  /\ Finish(p, ErrorResp(500,
                       "Object of type date is not JSON serializable"))
             ELSE /\ local' = [local EXCEPT ![p].llm_calls = @ + 1]
                  /\ \/ Finish(p, answer(InsightText))
                     \/ Finish(p, ErrorResp(500, "GROQ Insight error: 500"))
        ELSE /\ UNCHANGED local
             /\ Finish(p, answer(NoDataText))
  /\ UNCHANGED <<schemas, schema_files, databases_file, req>>
  /\ UNCHANGED text_vars

\* The response is sent and the thread takes the next request.
respond(p) ==
  /\ pc[p] = "done"
  /\ pc' = [pc EXCEPT ![p] = "idle"]
  /\ req' = [req EXCEPT ![p] = NoReq]
  /\ local' = [local EXCEPT ![p] = NoLocal]
  /\ resp' = [resp EXCEPT ![p] = NoResp]
  /\ UNCHANGED <<schemas, schema_files, databases_file>>
  /\ UNCHANGED text_vars

(***************************************************************************)
(* POST /load_schema, with schema.py run as its subprocess                 *)
(***************************************************************************)

\* Lines 221-225: the body is read before the try block.
load_schema_start(p) ==
  /\ pc[p] = "idle"
  /\ \E body \in Bodies, database \in RequestDbs :
       /\ body # "object" => database = ""
       /\ req' = [req EXCEPT ![p] = [endpoint |-> "load_schema", body |-> body,
                                     prompt |-> "", database |-> database]]
       /\ IF body = "malformed"
          THEN Finish(p, EscapedResp(400, "BadRequest"))
          ELSE IF body = "not_object"
          THEN Finish(p, EscapedResp(500, "AttributeError"))
          ELSE IF database = ""
          THEN Finish(p, ErrorResp(400, "Missing database name"))
          ELSE Goto(p, "load_open")
  /\ UNCHANGED <<schemas, schema_files, databases_file, local>>
  /\ UNCHANGED text_vars

\* Lines 229-230: open(schema_path, "w") empties the file next to app.py, or
\* raises OSError, which the except clause of line 242 does not name.
load_schema_open(p) ==
  /\ pc[p] = "load_open"
  /\ \/ /\ WriteAppDirSchemaFile(EmptyFile)
        /\ Goto(p, "load_dump")
     \/ /\ Finish(p, EscapedResp(500, "OSError"))
        /\ UNCHANGED schema_files
  /\ UNCHANGED <<schemas, databases_file, req, local>>
  /\ UNCHANGED text_vars

\* Line 231 and the end of the with block: the empty list is written.
load_schema_dump(p) ==
  /\ pc[p] = "load_dump"
  /\ \E file \in Overlay(app_dir_schema_file, JsonFile(<<>>)) :
       WriteAppDirSchemaFile(file)
  /\ Goto(p, "load_spawn")
  /\ UNCHANGED <<schemas, databases_file, req, local>>
  /\ UNCHANGED text_vars

\* Line 235: subprocess.run starts python on schema.py, or raises OSError
\* when it cannot.
load_schema_spawn(p) ==
  /\ pc[p] = "load_spawn"
  /\ \/ Goto(p, "schema_extract")
     \/ Finish(p, EscapedResp(500, "OSError"))
  /\ UNCHANGED <<schemas, schema_files, databases_file, req, local>>
  /\ UNCHANGED text_vars

\* schema.py main, lines 34-67: USE and the SHOW and DESCRIBE statements. A
\* database the warehouse does not know, or any other failure, ends the
\* script with a non-zero status: CalledProcessError in load_schema.
schema_main_extract(p) ==
  /\ pc[p] = "schema_extract"
  /\ \/ /\ req[p].database \in WarehouseDbs
        /\ Goto(p, "schema_open")
     \/ Finish(p, ErrorResp(500, "Failed to load schema: exit status 1"))
  /\ UNCHANGED <<schemas, schema_files, databases_file, req, local>>
  /\ UNCHANGED text_vars

\* schema.py main, lines 70-71: open(schema_path, "w") empties the file of
\* the working directory, or raises OSError, which ends the script with a
\* non-zero status: CalledProcessError in load_schema.
schema_main_open(p) ==
  /\ pc[p] = "schema_open"
  /\ \/ /\ WriteCwdSchemaFile(EmptyFile)
        /\ Goto(p, "schema_dump")
     \/ /\ Finish(p, ErrorResp(500, "Failed to load schema: exit status 1"))
        /\ UNCHANGED schema_files
  /\ UNCHANGED <<schemas, databases_file, req, local>>
  /\ UNCHANGED text_vars

\* schema.py main, lines 72-78: the schema is written; then the finally block,
\* whose failure ends the script with a non-zero status.
schema_main_dump(p) ==
  /\ pc[p] = "schema_dump"
  /\ \E file \in Overlay(schema_file, JsonFile(<<full_schema(req[p].database)>>)) :
       WriteCwdSchemaFile(file)
  /\ \/ Goto(p, "load_read")
     \/ Finish(p, ErrorResp(500, "Failed to load schema: exit status 1"))
  /\ UNCHANGED <<schemas, databases_file, req, local>>
  /\ UNCHANGED text_vars

\* Line 239, right-hand side: load_current_schema() reads the file of the
\* working directory.
load_schema_read(p) ==
  /\ pc[p] = "load_read"
  /\ local' = [local EXCEPT ![p].loaded = load_current_schema(schema_file)]
  /\ Goto(p, "load_assign")
  /\ UNCHANGED <<schemas, schema_files, databases_file, req>>
  /\ UNCHANGED text_vars

\* Lines 239-241: the global is rebound to the new mapping; the success answer.
load_schema_assign(p) ==
  /\ pc[p] = "load_assign"
  /\ schemas' = local[p].loaded
  /\ Finish(p, StatusResp("Schema for " \o Backquote \o req[p].database
                          \o Backquote \o " loaded successfully."))
  /\ UNCHANGED <<schema_files, databases_file, req, local>>
  /\ UNCHANGED text_vars

(***************************************************************************)
(* POST /refresh_databases, with fetch_all_databases.py as its subprocess  *)
(***************************************************************************)

\* SHOW DATABASES, as fetch_all_databases.py lists it.
DatabaseList == <<"hr_db", "sales_db">>

\* Lines 184-191: subprocess.run starts python on fetch_all_databases.py, or
\* raises OSError, which the except clause of line 194 does not name.
refresh_databases(p) ==
  /\ pc[p] = "idle"
  /\ req' = [req EXCEPT ![p] = [NoReq EXCEPT !.endpoint = "refresh_databases"]]
  /\ \/ Goto(p, "fetch_list")
     \/ Finish(p, EscapedResp(500, "OSError"))
  /\ UNCHANGED <<schemas, schema_files, databases_file, local>>
  /\ UNCHANGED text_vars

\* fetch_all_databases.py, lines 19-32: SHOW DATABASES. A failure ends the
\* script with a non-zero status: CalledProcessError in refresh_databases,
\* answered by lines 194-199.
fetch_all_databases(p) ==
  /\ pc[p] = "fetch_list"
  /\ \/ Goto(p, "fetch_open")
     \/ Finish(p, ErrorResp(500, "Failed to refresh databases."))
  /\ UNCHANGED <<schemas, schema_files, databases_file, req, local>>
  /\ UNCHANGED text_vars

\* fetch_all_databases.py, line 33: open("databases.json", "w") empties the
\* file, or raises OSError, which ends the script with a non-zero status:
\* CalledProcessError in refresh_databases, answered by lines 194-199.
fetch_main_open(p) ==
  /\ pc[p] = "fetch_open"
  /\ \/ /\ databases_file' = EmptyFile
        /\ Goto(p, "fetch_dump")
     \/ /\ Finish(p, ErrorResp(500, "Failed to refresh databases."))
        /\ UNCHANGED databases_file
  /\ UNCHANGED <<schemas, schema_files, req, local>>
  /\ UNCHANGED text_vars

\* fetch_all_databases.py, lines 34-35: the list is written and the script
\* ends; refresh_databases, lines 192-193: the success answer.
fetch_main_dump(p) ==
  /\ pc[p] = "fetch_dump"
  /\ databases_file' \in Overlay(databases_file, JsonFile(DatabaseList))
  /\ Finish(p, StatusResp("Database list refreshed."))
  /\ UNCHANGED <<schemas, schema_files, req, local>>
  /\ UNCHANGED text_vars

(***************************************************************************)
(* The specifications                                                      *)
(***************************************************************************)

Init == ServerInit /\ TextsOff

\* The threaded server: the requests of all threads interleave.
Next ==
  \E p \in Procs :
       \/ index(p)
       \/ analyze_start(p)
       \/ analyze_check(p)
       \/ analyze_lookup(p)
       \/ analyze_generate(p)
       \/ analyze_query(p)
       \/ analyze_insight(p)
       \/ load_schema_start(p)
       \/ load_schema_open(p)
       \/ load_schema_dump(p)
       \/ load_schema_spawn(p)
       \/ schema_main_extract(p)
       \/ schema_main_open(p)
       \/ schema_main_dump(p)
       \/ load_schema_read(p)
       \/ load_schema_assign(p)
       \/ refresh_databases(p)
       \/ fetch_all_databases(p)
       \/ fetch_main_open(p)
       \/ fetch_main_dump(p)
       \/ respond(p)

Spec == Init /\ [][Next]_vars

\* The functions of the pipeline on their own, run on every text.
TextInit ==
  /\ s_text \in Texts(MaxTokens)
  /\ s_style \in FenceStyles
  /\ s_db = "sales_db"
  /\ s_phase = "start"
  /\ s_result = [ok |-> FALSE, sql |-> "", error |-> "", sql_text |-> ""]
  /\ cwd_is_app_dir = TRUE
  /\ schema_file = EmptyFile
  /\ app_dir_schema_file = schema_file
  /\ schemas = load_current_schema(schema_file)
  /\ databases_file = EmptyFile
  /\ pc = [p \in Procs |-> "idle"]
  /\ req = [p \in Procs |-> NoReq]
  /\ local = [p \in Procs |-> NoLocal]
  /\ resp = [p \in Procs |-> NoResp]

\* generate_sql on the text in its fences.
call_generate_sql ==
  /\ s_phase = "start"
  /\ s_result' = generate_sql(Wrap(s_text, s_style), s_db)
  /\ s_phase' = "generated"
  /\ UNCHANGED <<s_text, s_style, s_db>>
  /\ UNCHANGED server_vars

\* qualify_table_names on the text.
call_qualify_table_names ==
  /\ s_phase = "start"
  /\ s_style = "none"
  /\ s_result' = [ok |-> TRUE, sql |-> qualify_table_names(s_text, s_db), error |-> "",
                   sql_text |-> s_text]
  /\ s_phase' = "qualified"
  /\ UNCHANGED <<s_text, s_style, s_db>>
  /\ UNCHANGED server_vars

TextNext == call_generate_sql \/ call_qualify_table_names

SpecSanitize == TextInit /\ [][TextNext]_vars

(***************************************************************************)
(* The properties                                                          *)
(***************************************************************************)

\* Thread p has finished an /analyze request that had a JSON object as body.
AnalyzeDone(p) ==
  pc[p] = "done" /\ req[p].endpoint = "analyze" /\ req[p].body = "object"

\* C1: when sql_text, the text generate_sql has sanitized (fences stripped,
\* boundary found, placeholder substituted, tables qualified), holds
\* information_schema in any letter case, the request ends with the restricted-namespace error
\* and has made no warehouse call.
C1_RestrictedNamespaceStopsRequest ==
  \A p \in Procs :
    /\ local[p].sql_text # ""
    /\ Contains(Lower(local[p].sql_text), "information_schema")
    => /\ pc[p] = "done"
       /\ resp[p] = ErrorResp(500, RestrictedError)
       /\ local[p].wh_calls = 0
       /\ local[p].connection = "none"
       /\ local[p].statements = <<>>

\* A request stopped for a namespace that the output spells in capitals.
C1_Witness ==
  \E p \in Procs :
    /\ pc[p] = "done"
    /\ resp[p].error = RestrictedError
    /\ Contains(local[p].content, "Information_Schema")
    /\ local[p].llm_calls = 1

\* A step of thread p's /analyze handler up to its membership test (the body
\* is read, the fields are tested, db_name is looked for in the cache), for a
\* request that names a database which is no key of the cache.
UnknownDatabaseStep(p) ==
  /\ pc[p] \in {"idle", "analyze_check"}
  /\ pc'[p] # pc[p]
  /\ req'[p].endpoint = "analyze"
  /\ req'[p].body = "object"
  /\ req'[p].database # ""
  /\ req'[p].database \notin DOMAIN schemas

\* C3 as stated: an /analyze request whose database name is no key of the
\* cache gets the 400 answer naming the database, and makes no call.
C3_UnknownDatabaseAlwaysNamed ==
  [][\A p \in Procs :
       UnknownDatabaseStep(p)
       => /\ local'[p].llm_calls = 0
          /\ local'[p].wh_calls = 0
          /\ \/ pc[p] = "idle" /\ req'[p].prompt # "" /\ pc'[p] = "analyze_check"
             \/ /\ pc'[p] = "done"
                /\ resp'[p] = ErrorResp(400, "Unknown database: " \o req'[p].database)]_vars

\* C3 amended: such a request gets a 400 answer and makes no call; the answer
\* names the database when the request has a prompt, and is the missing-input
\* answer when it has none.
C3_UnknownDatabaseRejected ==
  [][\A p \in Procs :
       UnknownDatabaseStep(p)
       => /\ local'[p].llm_calls = 0
          /\ local'[p].wh_calls = 0
          /\ IF req'[p].prompt = ""
             THEN /\ pc'[p] = "done"
                  /\ resp'[p] = ErrorResp(400, "Missing prompt or database")
             ELSE \/ pc[p] = "idle" /\ pc'[p] = "analyze_check"
                  \/ /\ pc[p] = "analyze_check"
                     /\ pc'[p] = "done"
                     /\ resp'[p] = ErrorResp(400, "Unknown database: "
                                                  \o req'[p].database)]_vars

\* A request with a prompt, for a database that is no key of a cache that
\* holds another one, answered.
C3_Witness ==
  \E p \in Procs :
    /\ AnalyzeDone(p)
    /\ req[p].prompt # ""
    /\ req[p].database # ""
    /\ DOMAIN schemas # {}
    /\ req[p].database \notin DOMAIN schemas
    /\ resp[p] = ErrorResp(400, "Unknown database: " \o req[p].database)
    /\ local[p].llm_calls = 0

\* C4: a finished /analyze request for which the warehouse returned a result
\* without rows has the fixed message as insight, and has called the
\* generation service once.
C4_NoRowsNoInsightCall ==
  \A p \in Procs :
    AnalyzeDone(p) /\ local[p].columns # <<>> /\ local[p].rows = <<>>
    => /\ resp[p].status = 200
       /\ resp[p].insight = NoDataText
       /\ resp[p].rows = <<>>
       /\ local[p].llm_calls = 1

C4_Witness ==
  \E p \in Procs :
    /\ AnalyzeDone(p)
    /\ local[p].wh_calls = 1
    /\ local[p].columns # <<>>
    /\ local[p].rows = <<>>
    /\ resp[p].insight = NoDataText

\* The request of thread p has a caller input error: a body that is no JSON
\* object, or a missing field.
CallerInputError(p) ==
  \/ req[p].endpoint \in {"analyze", "load_schema"} /\ req[p].body # "object"
  \/ req[p].endpoint = "analyze" /\ (req[p].prompt = "" \/ req[p].database = "")
  \/ req[p].endpoint = "load_schema" /\ req[p].database = ""

\* C5: every request that fails, on any of the three endpoints, has a JSON
\* error body as answer, with status 400 for a caller input error and 500 for
\* any other error.
C5_ErrorsAnsweredAsJson ==
  \A p \in Procs :
    pc[p] = "done" /\ resp[p].status # 200
    => /\ resp[p].json
       /\ resp[p].error # ""
       /\ resp[p].status = (IF CallerInputError(p)
                               \/ Contains(resp[p].error, "Unknown database")
                            THEN 400 ELSE 500)

\* C6: once query_databricks has acquired a connection and has returned or
\* raised, the connection is closed, and so is the cursor if one was opened.
C6_ConnectionAlwaysReleased ==
  \A p \in Procs :
    local[p].connection # "none"
    => local[p].connection = "closed" /\ local[p].cursor \in {"none", "closed"}

\* The cache as load_current_schema builds it from a snapshot of database d.
CompleteSchema(d) == load_current_schema(JsonFile(<<full_schema(d)>>))[d]

\* C7: the cache holds complete schemas only, and no /analyze request fails
\* on the lookup that follows its membership test.
C7_CacheReadsNeverFail ==
  /\ \A d \in DOMAIN schemas : schemas[d] = CompleteSchema(d)
  /\ \A p \in Procs :
       AnalyzeDone(p) /\ req[p].database # ""
       => resp[p] # ErrorResp(500, "'" \o req[p].database \o "'")

\* C10: the step by which a /load_schema request for d answers with success
\* leaves d in the cache, with the schema its extraction wrote.
C10_SuccessMeansLoaded ==
  [][\A p \in Procs :
       pc[p] = "load_assign" /\ pc'[p] = "done" /\ resp'[p].status = 200
       => /\ req[p].database \in DOMAIN schemas'
          /\ schemas'[req[p].database] = CompleteSchema(req[p].database)]_vars

\* C2: what qualify_table_names returns is left as it is by a second
\* qualification: the identifiers it has qualified are not rewritten again.
C2_QualificationIdempotent ==
  s_phase = "qualified"
  => qualify_table_names(s_result.sql, s_db) = s_result.sql

\* s starts with a leading keyword, in any letter case.
StartsWithKeyword(s) == \E kw \in LeadingKeywords : HasAtNoCase(s, 1, kw)

\* C8 as stated: every statement generate_sql returns starts with a leading
\* keyword.
C8_ReturnedStartsWithKeyword ==
  s_phase = "generated" /\ s_result.ok => StartsWithKeyword(s_result.sql)

\* The text of generate_sql when its loop over the lines starts.
Defenced(content) == strip_fence_close(strip_fence_open(content))

\* s starts with the leading keyword that the line of t starting at j begins
\* with, spelled as that line spells it.
StartsWithKeywordOfLine(s, t, j) ==
  LET k == SkipSpace(t, j)
  IN \E kw \in LeadingKeywords :
       /\ HasAtNoCase(t, k, kw)
       /\ HasAt(s, 1, SubSeq(t, k, k + Len(kw) - 1))

\* C8 amended: a statement generate_sql returns for an output that has, after
\* fence stripping, a line beginning with a leading keyword starts with the
\* keyword of the first such line, spelled as the output spells it; a
\* statement it returns for an output without such a line starts with no
\* leading keyword.
C8_KeywordLineStartsStatement ==
  s_phase = "generated" /\ s_result.ok
  => LET t == Strip(Defenced(Wrap(s_text, s_style)))
         j == FirstKeywordLine(t, 1)
     IN IF j # 0 THEN StartsWithKeywordOfLine(s_result.sql, t, j)
        ELSE ~StartsWithKeyword(s_result.sql)

\* A statement returned after lines before its keyword line were discarded.
C8_Witness ==
  /\ s_phase = "generated"
  /\ s_result.ok
  /\ FirstKeywordLine(Strip(Defenced(Wrap(s_text, s_style))), 1) > 1
  /\ HasAt(s_result.sql, 1, "Show")

\* C9: generate_sql gives for a text in fences, with or without the language
\* tag, what it gives for the text without them.
C9_FencesMakeNoDifference ==
  s_phase = "generated" /\ s_style # "none"
  => s_result = generate_sql(s_text, s_db)

====
